---- MODULE Spec2Model ----
(***************************************************************************)
(* A model of the MenousDB HTTP client (menousdb.go).                      *)
(*                                                                         *)
(* The client is a value (URL, Key, Database) built by NewMenousDB.  Each  *)
(* exported method is one action: it validates the database name, builds   *)
(* the headers and the body, calls makeRequest (marshal, http.NewRequest,  *)
(* client.Do) and turns the response body into its result.  The server and *)
(* the network are the environment: the answer to a request (a transport   *)
(* failure, or a body that may break off with a read error) and the amount *)
(* of the body the JSON decoder has pulled from the stream are chosen      *)
(* nondeterministically.                                                   *)
(*                                                                         *)
(* Strings that the code inspects are sequences of characters (the URL,    *)
(* the response body); strings it only passes on are TLA+ strings.         *)
(***************************************************************************)
EXTENDS Integers, Sequences, FiniteSets, TLC

\* Longest response body the server sends, in bytes.
MaxLen == 3

\* Number of method calls made on the client in one behaviour.
MaxCalls == 2

(***************************************************************************)
(* Inputs                                                                  *)
(***************************************************************************)

\* Constructor arguments.  "h" stands for a letter, so <<"h">> is a URL
\* without a trailing slash, <<"h", "/">> one with it, <<":">> a URL that
\* url.Parse rejects (missing protocol scheme) and <<>> the empty string.
Urls == { <<>>, <<"h">>, <<"h", "/">>, <<":">> }

Keys == { "k1", "k2" }

Databases == { "", "db" }

Tables == { "t1", "t2" }

\* Go values passed as arguments, as <<type, contents...>>.
GoNil == <<"nil">>

GoStrings == <<"strings", "a">>

GoMap == <<"map", "c">>

\* A value json.Marshal rejects (a map holding a channel or a func).
GoChan == <<"chan">>

\* []string arguments: a nil slice or a slice.
StringSlices == { GoNil, GoStrings }

\* map[string]interface{} and interface{} arguments: nil, a map, or a value
\* that cannot be encoded.
MapValues == { GoNil, GoMap, GoChan }

\* Bytes of a response body: an object is "{" "}", a number is "1"...
Alphabet == { "{", "}", "1" }

Bodies == UNION { [1..n -> Alphabet] : n \in 0..MaxLen }

\* What client.Do and the body stream can deliver: no response at all, or a
\* response whose body is `body` and ends with EOF or with a read error.
Answers ==
  { [fail |-> TRUE, body |-> <<>>, readErr |-> FALSE] } \cup
  { [fail |-> FALSE, body |-> b, readErr |-> e] : b \in Bodies, e \in BOOLEAN }

\* One answer of each kind: no response, an object, a syntax error with
\* bytes after it, and a number cut off by a read error.
CoreAnswers ==
  { [fail |-> TRUE, body |-> <<>>, readErr |-> FALSE],
    [fail |-> FALSE, body |-> <<"{", "}">>, readErr |-> FALSE],
    [fail |-> FALSE, body |-> <<"}", "1">>, readErr |-> FALSE],
    [fail |-> FALSE, body |-> <<"1">>, readErr |-> TRUE] }

(***************************************************************************)
(* Values                                                                  *)
(***************************************************************************)

\* The nil error.
NoErr == "nil"

ErrNoDatabase == "no database specified"

\* body == nil: the operation passes no body.
NilBody == [k \in {} |-> <<>>]

NoParams == [k \in {} |-> <<>>]

\* The nil result of the methods returning a map or an interface{}.
Nil == [k |-> "nil", v |-> <<>>]

\* A Go string result.
Text(s) == [k |-> "text", v |-> s]

\* A decoded JSON value as a result.
Json(j) == [k |-> "json", v |-> j]

NoReq ==
  [method |-> "", url |-> <<>>, header |-> [h \in {} |-> ""],
   hasBody |-> FALSE, body |-> NilBody]

NoResp == [fail |-> FALSE, body |-> <<>>, readErr |-> FALSE]

NoCall == [op |-> "", table |-> "", params |-> NoParams]

VARIABLES
  m,        \* the client: [URL, Key, Database]
  ctor,     \* the arguments NewMenousDB was called with
  call,     \* the last call: [op, table, params]
  sent,     \* whether the last call reached client.Do
  req,      \* the request the last call handed to client.Do
  resp,     \* what came back for it
  bodyRead, \* whether the last call read from resp.Body
  decRead,  \* bytes the JSON decoder had pulled from resp.Body
  ret,      \* the last call's return values: [val, err]
  nCalls,   \* calls made so far
  nSent     \* requests handed to client.Do so far

vars == <<m, ctor, call, sent, req, resp, bodyRead, decRead, ret, nCalls, nSent>>

(***************************************************************************)
(* NewMenousDB and validateDatabase                                        *)
(***************************************************************************)

HasSuffixSlash(url) == Len(url) > 0 /\ url[Len(url)] = "/"

NewMenousDB_alwaysAppend(url, key, database) ==
  [URL |-> url \o <<"/">>, Key |-> key, Database |-> database]

NewMenousDB(url, key, database) ==
  [URL |-> IF ~HasSuffixSlash(url) THEN url \o <<"/">> ELSE url,
   Key |-> key,
   Database |-> database]

validateDatabase_never(mm) == NoErr

validateDatabase(mm) ==
  IF mm.Database = "" THEN ErrNoDatabase ELSE NoErr

(***************************************************************************)
(* makeRequest                                                             *)
(***************************************************************************)

\* json.Marshal of one argument: a nil slice or map is null, a slice an
\* array of its elements, a map an object of its entries.
MarshalValue(v) ==
  CASE v[1] = "nil"     -> <<"null">>
    [] v[1] = "strings" -> <<"array">> \o Tail(v)
    [] v[1] = "map"     -> <<"object">> \o Tail(v)

\* json.Marshal(body): fails when a value cannot be encoded.
Marshal(body) ==
  IF \E k \in DOMAIN body : body[k][1] = "chan"
    THEN [err |-> "json: unsupported type", json |-> NilBody]
    ELSE [err |-> NoErr, json |-> [k \in DOMAIN body |-> MarshalValue(body[k])]]

\* url.Parse inside http.NewRequest, for URLs over the characters h / : and
\* an endpoint name: only a leading colon is rejected.
ParseOK(url) == ~(Len(url) > 0 /\ url[1] = ":")

\* makeRequest up to the call of client.Do: the error it returns before
\* sending, or the request it hands to client.Do.
makeRequest_ignoreMarshalErr(mm, method, endpoint, headers, body) ==
  LET url == mm.URL \o <<endpoint>>
      mj  == IF body # NilBody /\ Marshal(body).err = NoErr
               THEN Marshal(body).json ELSE NilBody
  IN  IF ~ParseOK(url) THEN [err |-> "parse", req |-> NoReq]
      ELSE [err |-> NoErr,
            req |-> [method |-> method, url |-> url,
                     header |-> [h \in {"Content-Type"} \cup DOMAIN headers |->
                                   IF h \in DOMAIN headers THEN headers[h]
                                   ELSE "application/json"],
                     hasBody |-> body # NilBody, body |-> mj]]

makeRequest(mm, method, endpoint, headers, body) ==
  LET url == mm.URL \o <<endpoint>>
      mj  == IF body # NilBody THEN Marshal(body)
             ELSE [err |-> NoErr, json |-> NilBody]
  IN  IF mj.err # NoErr THEN [err |-> mj.err, req |-> NoReq]
      ELSE IF ~ParseOK(url) THEN [err |-> "parse", req |-> NoReq]
      ELSE [err |-> NoErr,
            req |-> [method |-> method, url |-> url,
                     header |-> [h \in {"Content-Type"} \cup DOMAIN headers |->
                                   IF h \in DOMAIN headers THEN headers[h]
                                   ELSE "application/json"],
                     hasBody |-> body # NilBody, body |-> mj.json]]

(***************************************************************************)
(* Reading the response                                                    *)
(***************************************************************************)

\* The JSON scanner of json.Decoder over the body's bytes from position i:
\*   "end"   a complete value of `len` bytes, known once `need` bytes are in
\*           the buffer (a number ends at the byte after it);
\*   "error" a syntax error at byte `need`;
\*   "more"  the bytes ran out in scanner state `st`.
RECURSIVE scan(_, _, _)
scan(buf, i, st) ==
  IF i > Len(buf) THEN [r |-> "more", len |-> Len(buf), need |-> Len(buf), st |-> st]
  ELSE
    CASE st = "beginValue" ->
           IF buf[i] = "{" THEN scan(buf, i + 1, "beginStringOrEmpty")
           ELSE IF buf[i] = "1" THEN scan(buf, i + 1, "state1")
           ELSE [r |-> "error", len |-> 0, need |-> i, st |-> st]
      [] st = "beginStringOrEmpty" ->
           IF buf[i] = "}" THEN [r |-> "end", len |-> i, need |-> i, st |-> st]
           ELSE [r |-> "error", len |-> 0, need |-> i, st |-> st]
      [] st = "state1" ->
           IF buf[i] = "1" THEN scan(buf, i + 1, "state1")
           ELSE [r |-> "end", len |-> i - 1, need |-> i, st |-> st]

\* The Go value of a complete JSON text: an object or a number.
Unmarshal(text) ==
  IF text[1] = "{" THEN <<"object">> ELSE <<"number">> \o text

\* json.NewDecoder(resp.Body).Decode(&result) for an interface{} result:
\* the error or the value, and the least number of bytes the decoder must
\* have read from the stream to get there.
Decode(ans) ==
  LET s == scan(ans.body, 1, "beginValue")
      n == Len(ans.body)
  IN  CASE s.r = "end" ->
             [err |-> NoErr, val |-> Unmarshal(SubSeq(ans.body, 1, s.len)), need |-> s.need]
        [] s.r = "error" ->
             [err |-> "syntax", val |-> <<>>, need |-> s.need]
        [] s.r = "more" ->
             IF ans.readErr THEN [err |-> "read", val |-> <<>>, need |-> n]
             ELSE IF s.st = "state1"
               THEN [err |-> NoErr, val |-> Unmarshal(ans.body), need |-> n]
             ELSE [err |-> IF n = 0 THEN "EOF" ELSE "unexpected EOF",
                   val |-> <<>>, need |-> n]

\* The zero value a method returns with an error: "" for the methods that
\* return a string, nil for the others.
ZeroValue(mode) == IF mode = "string" THEN Text(<<>>) ELSE Nil

ErrorReturn_text(mode, err) == [val |-> Text(<<"e">>), err |-> err]

\* `return nil, err` / `return "", err`.
ErrorReturn(mode, err) == [val |-> ZeroValue(mode), err |-> err]

\* body, err := io.ReadAll(resp.Body); return string(body), nil
ReadAllResult_decoding(ans) ==
  IF ans.readErr THEN ErrorReturn("string", "read")
  ELSE IF Decode(ans).err = NoErr THEN [val |-> Json(Decode(ans).val), err |-> NoErr]
  ELSE [val |-> Text(ans.body), err |-> NoErr]

ReadAllResult(ans) ==
  IF ans.readErr THEN ErrorReturn("string", "read")
  ELSE [val |-> Text(ans.body), err |-> NoErr]

\* ReadDB: decode into a map; any decode error is returned.
DecodeMapResult(ans) ==
  LET d == Decode(ans)
  IN  IF d.err # NoErr THEN ErrorReturn("map", d.err)
      ELSE IF d.val[1] # "object" THEN ErrorReturn("map", "cannot unmarshal")
      ELSE [val |-> Json(d.val), err |-> NoErr]

DecodeOrTextResult_noFallback(ans, n) ==
  LET d == Decode(ans)
  IN  IF d.err # NoErr THEN ErrorReturn("any", d.err)
      ELSE [val |-> Json(d.val), err |-> NoErr]

\* Decode into an interface{}; on a decode error, io.ReadAll what is left
\* of resp.Body after the n bytes the decoder took, and return it as text.
DecodeOrTextResult(ans, n) ==
  LET d == Decode(ans)
  IN  IF d.err # NoErr
        THEN IF ans.readErr THEN ErrorReturn("any", "read")
             ELSE [val |-> Text(SubSeq(ans.body, n + 1, Len(ans.body))), err |-> NoErr]
      ELSE [val |-> Json(d.val), err |-> NoErr]

\* How many bytes the decoder may have read when Decode returns: at least
\* what the outcome needs, at most the whole body (the stream delivers the
\* body in chunks of any size).
DecoderReads(mode, ans) ==
  IF mode = "string" THEN {0} ELSE Decode(ans).need .. Len(ans.body)

Result(mode, ans, n) ==
  CASE mode = "string" -> ReadAllResult(ans)
    [] mode = "map"    -> DecodeMapResult(ans)
    [] mode = "any"    -> DecodeOrTextResult(ans, n)

(***************************************************************************)
(* The methods                                                             *)
(***************************************************************************)

\* The template every method spells out: dbErr is what validateDatabase
\* returned (NoErr for a method that does not call it), ans what client.Do
\* and the body stream deliver if the request is handed to client.Do.
Exchange(op, dbErr, method, endpoint, headers, body, table, params, mode, ans) ==
  /\ nCalls' = nCalls + 1
  /\ call' = [op |-> op, table |-> table, params |-> params]
  /\ UNCHANGED <<m, ctor>>
  /\ LET mr == makeRequest(m, method, endpoint, headers, body)
         e  == IF dbErr # NoErr THEN dbErr ELSE mr.err
     IN  IF e # NoErr
           THEN /\ ret' = ErrorReturn(mode, e)
                /\ sent' = FALSE
                /\ req' = NoReq
                /\ resp' = NoResp
                /\ bodyRead' = FALSE
                /\ decRead' = 0
                /\ nSent' = nSent
           ELSE /\ sent' = TRUE
                /\ req' = mr.req
                /\ nSent' = nSent + 1
                /\ resp' = ans
                /\ IF ans.fail
                     THEN /\ ret' = ErrorReturn(mode, "transport")
                          /\ bodyRead' = FALSE
                          /\ decRead' = 0
                     ELSE /\ bodyRead' = TRUE
                          /\ \E n \in DecoderReads(mode, ans) :
                               /\ decRead' = n
                               /\ ret' = Result(mode, ans, n)

ReadDB(ans) ==
  Exchange("ReadDB", validateDatabase(m), "GET", "read-db",
           [key |-> m.Key, database |-> m.Database],
           NilBody, "", NoParams, "map", ans)

CreateDB(ans) ==
  Exchange("CreateDB", validateDatabase(m), "POST", "create-db",
           [key |-> m.Key, database |-> m.Database],
           NilBody, "", NoParams, "string", ans)

DeleteDB_wrongEndpoint(ans) ==
  Exchange("DeleteDB", validateDatabase(m), "DELETE", "delete-table",
           [key |-> m.Key, database |-> m.Database],
           NilBody, "", NoParams, "string", ans)

DeleteDB(ans) ==
  Exchange("DeleteDB", validateDatabase(m), "DELETE", "del-database",
           [key |-> m.Key, database |-> m.Database],
           NilBody, "", NoParams, "string", ans)

CheckDBExists(ans) ==
  Exchange("CheckDBExists", validateDatabase(m), "GET", "check-db-exists",
           [key |-> m.Key, database |-> m.Database],
           NilBody, "", NoParams, "string", ans)

CreateTable(ans) ==
  \E table \in Tables, attributes \in StringSlices :
    Exchange("CreateTable", validateDatabase(m), "POST", "create-table",
             [key |-> m.Key, database |-> m.Database, table |-> table],
             [attributes |-> attributes],
             table, [attributes |-> attributes], "string", ans)

CheckTableExists(ans) ==
  \E table \in Tables :
    Exchange("CheckTableExists", validateDatabase(m), "GET", "check-table-exists",
             [key |-> m.Key, database |-> m.Database, table |-> table],
             NilBody, table, NoParams, "string", ans)

InsertIntoTable(ans) ==
  \E table \in Tables, values \in MapValues :
    Exchange("InsertIntoTable", validateDatabase(m), "POST", "insert-into-table",
             [key |-> m.Key, database |-> m.Database, table |-> table],
             [values |-> values],
             table, [values |-> values], "string", ans)

GetTable_noTableHeader(ans) ==
  \E table \in Tables :
    Exchange("GetTable", validateDatabase(m), "GET", "get-table",
             [key |-> m.Key, database |-> m.Database],
             NilBody, table, NoParams, "any", ans)

GetTable(ans) ==
  \E table \in Tables :
    Exchange("GetTable", validateDatabase(m), "GET", "get-table",
             [key |-> m.Key, database |-> m.Database, table |-> table],
             NilBody, table, NoParams, "any", ans)

SelectWhere(ans) ==
  \E table \in Tables, conditions \in MapValues :
    Exchange("SelectWhere", validateDatabase(m), "GET", "select-where",
             [key |-> m.Key, database |-> m.Database, table |-> table],
             [conditions |-> conditions],
             table, [conditions |-> conditions], "any", ans)

SelectColumns(ans) ==
  \E table \in Tables, columns \in StringSlices :
    Exchange("SelectColumns", validateDatabase(m), "GET", "select-columns",
             [key |-> m.Key, database |-> m.Database, table |-> table],
             [columns |-> columns],
             table, [columns |-> columns], "any", ans)

SelectColumnsWhere(ans) ==
  \E table \in Tables, columns \in StringSlices, conditions \in MapValues :
    Exchange("SelectColumnsWhere", validateDatabase(m), "GET", "select-columns-where",
             [key |-> m.Key, database |-> m.Database, table |-> table],
             [columns |-> columns, conditions |-> conditions],
             table, [columns |-> columns, conditions |-> conditions], "any", ans)

DeleteWhere(ans) ==
  \E table \in Tables, conditions \in MapValues :
    Exchange("DeleteWhere", validateDatabase(m), "DELETE", "delete-where",
             [key |-> m.Key, database |-> m.Database, table |-> table],
             [conditions |-> conditions],
             table, [conditions |-> conditions], "any", ans)

DeleteTable(ans) ==
  \E table \in Tables :
    Exchange("DeleteTable", validateDatabase(m), "DELETE", "delete-table",
             [key |-> m.Key, database |-> m.Database, table |-> table],
             NilBody, table, NoParams, "any", ans)

UpdateWhere_swapped(ans) ==
  \E table \in Tables, conditions \in MapValues, values \in MapValues :
    Exchange("UpdateWhere", validateDatabase(m), "POST", "update-table",
             [key |-> m.Key, database |-> m.Database, table |-> table],
             [conditions |-> values, values |-> conditions],
             table, [conditions |-> conditions, values |-> values], "any", ans)

UpdateWhere(ans) ==
  \E table \in Tables, conditions \in MapValues, values \in MapValues :
    Exchange("UpdateWhere", validateDatabase(m), "POST", "update-table",
             [key |-> m.Key, database |-> m.Database, table |-> table],
             [conditions |-> conditions, values |-> values],
             table, [conditions |-> conditions, values |-> values], "any", ans)

\* GetDatabases does not call validateDatabase and sends no database header.
GetDatabases(ans) ==
  Exchange("GetDatabases", NoErr, "GET", "get-databases",
           [key |-> m.Key],
           NilBody, "", NoParams, "any", ans)

Init ==
  \E url \in Urls, key \in Keys, database \in Databases :
    /\ ctor = [url |-> url, key |-> key, database |-> database]
    /\ m = NewMenousDB(url, key, database)
    /\ call = NoCall
    /\ sent = FALSE
    /\ req = NoReq
    /\ resp = NoResp
    /\ bodyRead = FALSE
    /\ decRead = 0
    /\ ret = [val |-> Nil, err |-> NoErr]
    /\ nCalls = 0
    /\ nSent = 0

\* The client has not been called yet.
Fresh == call = NoCall

\* The client may be called once more.
CallsLeft == nCalls < MaxCalls

\* Spec: the first call on a freshly built client, against every answer.
\* (No method changes the client, see ClientIsFixed, so a later call
\* starts from the same client as the first.)
Next ==
  \/ \E ans \in Answers : Fresh /\ ReadDB(ans)
  \/ \E ans \in Answers : Fresh /\ CreateDB(ans)
  \/ \E ans \in Answers : Fresh /\ DeleteDB(ans)
  \/ \E ans \in Answers : Fresh /\ CheckDBExists(ans)
  \/ \E ans \in Answers : Fresh /\ CreateTable(ans)
  \/ \E ans \in Answers : Fresh /\ CheckTableExists(ans)
  \/ \E ans \in Answers : Fresh /\ InsertIntoTable(ans)
  \/ \E ans \in Answers : Fresh /\ GetTable(ans)
  \/ \E ans \in Answers : Fresh /\ SelectWhere(ans)
  \/ \E ans \in Answers : Fresh /\ SelectColumns(ans)
  \/ \E ans \in Answers : Fresh /\ SelectColumnsWhere(ans)
  \/ \E ans \in Answers : Fresh /\ DeleteWhere(ans)
  \/ \E ans \in Answers : Fresh /\ DeleteTable(ans)
  \/ \E ans \in Answers : Fresh /\ UpdateWhere(ans)
  \/ \E ans \in Answers : Fresh /\ GetDatabases(ans)

Spec == Init /\ [][Next]_vars

\* SpecCalls: sequences of up to MaxCalls calls, against one answer of each
\* kind.
NextCalls ==
  \/ \E ans \in CoreAnswers : CallsLeft /\ ReadDB(ans)
  \/ \E ans \in CoreAnswers : CallsLeft /\ CreateDB(ans)
  \/ \E ans \in CoreAnswers : CallsLeft /\ DeleteDB(ans)
  \/ \E ans \in CoreAnswers : CallsLeft /\ CheckDBExists(ans)
  \/ \E ans \in CoreAnswers : CallsLeft /\ CreateTable(ans)
  \/ \E ans \in CoreAnswers : CallsLeft /\ CheckTableExists(ans)
  \/ \E ans \in CoreAnswers : CallsLeft /\ InsertIntoTable(ans)
  \/ \E ans \in CoreAnswers : CallsLeft /\ GetTable(ans)
  \/ \E ans \in CoreAnswers : CallsLeft /\ SelectWhere(ans)
  \/ \E ans \in CoreAnswers : CallsLeft /\ SelectColumns(ans)
  \/ \E ans \in CoreAnswers : CallsLeft /\ SelectColumnsWhere(ans)
  \/ \E ans \in CoreAnswers : CallsLeft /\ DeleteWhere(ans)
  \/ \E ans \in CoreAnswers : CallsLeft /\ DeleteTable(ans)
  \/ \E ans \in CoreAnswers : CallsLeft /\ UpdateWhere(ans)
  \/ \E ans \in CoreAnswers : CallsLeft /\ GetDatabases(ans)

SpecCalls == Init /\ [][NextCalls]_vars

(***************************************************************************)
(* Vocabulary of the properties                                            *)
(***************************************************************************)

Called == call # NoCall

\* The methods whose result type is string.
StringOps ==
  { "CreateDB", "DeleteDB", "CheckDBExists", "CreateTable", "CheckTableExists",
    "InsertIntoTable" }

\* The methods that fall back to text when decoding fails.
FallbackOps ==
  { "GetTable", "SelectWhere", "SelectColumns", "SelectColumnsWhere",
    "DeleteWhere", "DeleteTable", "UpdateWhere", "GetDatabases" }

\* The methods that take a table argument.
TableOps ==
  { "CreateTable", "CheckTableExists", "InsertIntoTable", "GetTable",
    "SelectWhere", "SelectColumns", "SelectColumnsWhere", "DeleteWhere",
    "DeleteTable", "UpdateWhere" }

AllOps == StringOps \cup FallbackOps \cup { "ReadDB" }

\* The zero value of a method's result type.
ZeroOf(op) == IF op \in StringOps THEN Text(<<>>) ELSE Nil

\* The request was handed to client.Do, a response came back and its body
\* arrived completely.
Answered == sent /\ ~resp.fail /\ ~resp.readErr

\* The whole body is one JSON document: an empty object or a number.
ValidJSON(b) ==
  \/ b = <<"{", "}">>
  \/ Len(b) > 0 /\ \A i \in 1..Len(b) : b[i] = "1"

\* The body begins with a complete JSON value (other bytes may follow).
StartsWithJSON(b) ==
  \/ Len(b) >= 2 /\ b[1] = "{" /\ b[2] = "}"
  \/ Len(b) >= 1 /\ b[1] = "1"

\* The Go value a JSON document stands for.
ValueOf(b) == IF b = <<"{", "}">> THEN <<"object">> ELSE <<"number">> \o b

\* json.Marshal accepts every argument of the call.
ArgsMarshal == \A k \in DOMAIN call.params : call.params[k] # GoChan

\* The JSON value that stands for a Go argument.
JSONOf(v) ==
  IF v = GoNil THEN <<"null">>
  ELSE IF v = GoStrings THEN <<"array", "a">>
  ELSE <<"object", "c">>

EndsWithSlash(u) == u # <<>> /\ u[Len(u)] = "/"

(***************************************************************************)
(* C1: validation of the database name                                     *)
(***************************************************************************)

\* C1 as stated: whenever the client's Database is the empty string, a call
\* of any of the 15 methods returns the missing-database error with the
\* zero-value result and sends no request.
C1_EveryMethodValidates ==
  (Called /\ m.Database = "") =>
    /\ ret = [val |-> ZeroOf(call.op), err |-> ErrNoDatabase]
    /\ ~sent

\* C1 amended: that holds of every method except GetDatabases, whatever the
\* arguments; GetDatabases never returns the missing-database error.
C1_AllButGetDatabasesValidate ==
  /\ (Called /\ m.Database = "" /\ call.op # "GetDatabases") =>
       /\ ret = [val |-> ZeroOf(call.op), err |-> ErrNoDatabase]
       /\ ~sent
  /\ (Called /\ call.op = "GetDatabases") => ret.err # ErrNoDatabase

\* An UpdateWhere with an argument that cannot be marshalled, on a client
\* without database, was refused with the missing-database error.
C1_Witness ==
  /\ call.op = "UpdateWhere"
  /\ m.Database = ""
  /\ call.params["values"] = GoChan
  /\ ret.err = ErrNoDatabase
  /\ ~sent

(***************************************************************************)
(* C2: a JSON decode failure is not an error                               *)
(***************************************************************************)

\* C2 as stated: for ReadDB and the eight fallback methods, an answered
\* request whose body is not valid JSON gives a text result and a nil error.
C2_DecodeFailureNeverAnError ==
  (Answered /\ call.op \in FallbackOps \cup {"ReadDB"} /\ ~ValidJSON(resp.body)) =>
    /\ ret.val.k = "text"
    /\ ret.err = NoErr

\* C2 amended: for the eight fallback methods, an answered request on whose
\* body the decoder fails (the body does not begin with a complete JSON
\* value) gives a text result and a nil error; a body that begins with a
\* complete JSON value decodes to that value whatever follows it; ReadDB
\* has no fallback and returns nil with the decode error.
C2_FallbackOnDecodeFailure ==
  /\ (Answered /\ call.op \in FallbackOps /\ ~StartsWithJSON(resp.body)) =>
       /\ ret.val.k = "text"
       /\ ret.err = NoErr
  /\ (Answered /\ call.op \in FallbackOps /\ StartsWithJSON(resp.body)) =>
       /\ ret.val.k = "json"
       /\ ret.err = NoErr
  /\ (Answered /\ call.op = "ReadDB" /\ ~StartsWithJSON(resp.body)) =>
       /\ ret.val = Nil
       /\ ret.err \notin { NoErr, "transport", ErrNoDatabase }

\* GetTable was answered with "}1" and returned text.
C2_Witness ==
  /\ call.op = "GetTable"
  /\ Answered
  /\ resp.body = <<"}", "1">>
  /\ ret.val.k = "text"
  /\ ret.err = NoErr

(***************************************************************************)
(* C3: the fallback text is the raw response body                          *)
(***************************************************************************)

\* C3 as stated: when a fallback method returns text after a decode
\* failure, the text is the complete response body.
C3_FallbackTextIsWholeBody ==
  (Answered /\ call.op \in FallbackOps /\ ret.err = NoErr /\ ret.val.k = "text") =>
    ret.val.v = resp.body

(***************************************************************************)
(* C4: a valid JSON body is returned decoded                               *)
(***************************************************************************)

C5_OneRequestWhenConfigured ==
  /\ nSent <= nCalls
  /\ (Called /\ m.Database # "" /\ ArgsMarshal) => sent

\* C5 amended: a call sends at most one request, whatever the answer, and
\* n calls send at most n; it sends exactly one when the database name is
\* configured (or the method is GetDatabases), the body marshals and URL +
\* endpoint parses as a URL, and none otherwise.
C5_AtMostOneRequestPerCall ==
  /\ [](nSent <= nCalls)
  /\ [](Called =>
          (sent <=> /\ m.Database # "" \/ call.op = "GetDatabases"
                    /\ ArgsMarshal
                    /\ ParseOK(m.URL)))
  /\ [][/\ nCalls' = nCalls + 1
        /\ nSent' = IF sent' THEN nSent + 1 ELSE nSent]_vars

\* Two calls were made, the second failed in transport, and one request was
\* sent in all.
C5_Witness ==
  /\ nCalls = 2
  /\ nSent = 1
  /\ sent
  /\ resp.fail

(***************************************************************************)
(* C6: one endpoint and one HTTP method per operation                      *)
(***************************************************************************)

EndpointOf ==
  [ReadDB |-> "read-db", CreateDB |-> "create-db", DeleteDB |-> "del-database",
   CheckDBExists |-> "check-db-exists", CreateTable |-> "create-table",
   CheckTableExists |-> "check-table-exists",
   InsertIntoTable |-> "insert-into-table", GetTable |-> "get-table",
   SelectWhere |-> "select-where", SelectColumns |-> "select-columns",
   SelectColumnsWhere |-> "select-columns-where", DeleteWhere |-> "delete-where",
   DeleteTable |-> "delete-table", UpdateWhere |-> "update-table",
   GetDatabases |-> "get-databases"]

MethodOf ==
  [ReadDB |-> "GET", CreateDB |-> "POST", DeleteDB |-> "DELETE",
   CheckDBExists |-> "GET", CreateTable |-> "POST", CheckTableExists |-> "GET",
   InsertIntoTable |-> "POST", GetTable |-> "GET", SelectWhere |-> "GET",
   SelectColumns |-> "GET", SelectColumnsWhere |-> "GET", DeleteWhere |-> "DELETE",
   DeleteTable |-> "DELETE", UpdateWhere |-> "POST", GetDatabases |-> "GET"]

\* The endpoint names the specification lists.
SpecEndpoints ==
  { "read-db", "create-db", "del-database", "check-db-exists", "create-table",
    "check-table-exists", "insert-into-table", "get-table", "select-where",
    "select-columns", "select-columns-where", "delete-where", "delete-table",
    "update-table", "get-databases" }

\* C6: every request that is sent goes to the client's URL followed by the
\* endpoint of its method, with the HTTP method of its method, whatever the
\* arguments and the earlier calls; the methods map one-to-one onto the
\* endpoint names of the specification.
C6_FixedEndpointAndMethod ==
  /\ Called => call.op \in AllOps
  /\ sent =>
       /\ req.method = MethodOf[call.op]
       /\ req.url = m.URL \o <<EndpointOf[call.op]>>
       /\ \A o \in AllOps \ {call.op} : req.url # m.URL \o <<EndpointOf[o]>>
  /\ DOMAIN EndpointOf = AllOps
  /\ { EndpointOf[o] : o \in AllOps } = SpecEndpoints

\* A second call, an UpdateWhere, was POSTed to h/update-table.
C6_Witness ==
  /\ nCalls = 2
  /\ call.op = "UpdateWhere"
  /\ sent
  /\ req.method = "POST"
  /\ req.url = <<"h", "/", "update-table">>

(***************************************************************************)
(* C7: the headers                                                         *)
(***************************************************************************)

\* C7: every request that is sent carries key = Key and Content-Type =
\* application/json; it carries database = Database, which is not empty,
\* unless the method is GetDatabases; it carries table exactly when the
\* method takes a table, with the argument as its value; it carries no
\* other header.
C7_Headers ==
  sent =>
    /\ DOMAIN req.header =
         {"Content-Type", "key"}
           \cup (IF call.op # "GetDatabases" THEN {"database"} ELSE {})
           \cup (IF call.op \in TableOps THEN {"table"} ELSE {})
    /\ req.header["Content-Type"] = "application/json"
    /\ req.header["key"] = m.Key
    /\ call.op # "GetDatabases" =>
         (req.header["database"] = m.Database /\ m.Database # "")
    /\ call.op \in TableOps => req.header["table"] = call.table

\* A GetTable on table t2 was sent with key, database and table headers.
C7_Witness ==
  /\ call.op = "GetTable"
  /\ call.table = "t2"
  /\ sent
  /\ req.header["table"] = "t2"
  /\ req.header["key"] = "k2"
  /\ req.header["database"] = "db"

(***************************************************************************)
(* C8: the bodies                                                          *)
(***************************************************************************)

\* The keys of the JSON object each method sends.
BodyKeysOf ==
  [ReadDB |-> {}, CreateDB |-> {}, DeleteDB |-> {}, CheckDBExists |-> {},
   CreateTable |-> {"attributes"}, CheckTableExists |-> {},
   InsertIntoTable |-> {"values"}, GetTable |-> {},
   SelectWhere |-> {"conditions"}, SelectColumns |-> {"columns"},
   SelectColumnsWhere |-> {"columns", "conditions"},
   DeleteWhere |-> {"conditions"}, DeleteTable |-> {},
   UpdateWhere |-> {"conditions", "values"}, GetDatabases |-> {}]

\* C8: a request that is sent has a body exactly when its method has body
\* keys; the body is a JSON object with exactly those keys, each holding the
\* JSON value of the argument of that name; a call whose body cannot be
\* marshalled (and passes validation) returns the marshal error with the
\* zero value and sends nothing.
C8_Bodies ==
  /\ sent =>
       /\ req.hasBody <=> BodyKeysOf[call.op] # {}
       /\ DOMAIN req.body = BodyKeysOf[call.op]
       /\ DOMAIN call.params = BodyKeysOf[call.op]
       /\ \A k \in BodyKeysOf[call.op] : req.body[k] = JSONOf(call.params[k])
  /\ (Called /\ ~ArgsMarshal /\ m.Database # "") =>
       /\ ~sent
       /\ ret = [val |-> ZeroOf(call.op), err |-> "json: unsupported type"]

\* An UpdateWhere with nil conditions and a map of values was sent with
\* conditions null and values the object.
C8_Witness ==
  /\ call.op = "UpdateWhere"
  /\ sent
  /\ call.params["conditions"] = GoNil
  /\ call.params["values"] = GoMap
  /\ req.body["conditions"] = <<"null">>
  /\ req.body["values"] = <<"object", "c">>

(***************************************************************************)
(* C9: transport failure                                                   *)
(***************************************************************************)

\* C9: when client.Do fails, the call returns the transport error with the
\* zero value of its result type and reads no response body.
C9_TransportFailure ==
  (sent /\ resp.fail) =>
    /\ ret = [val |-> ZeroOf(call.op), err |-> "transport"]
    /\ ~bodyRead
    /\ decRead = 0

\* A SelectWhere was sent and failed in transport.
C9_Witness ==
  /\ call.op = "SelectWhere"
  /\ sent
  /\ resp.fail
  /\ ret = [val |-> Nil, err |-> "transport"]

(***************************************************************************)
(* C10: the client is fixed by its constructor                             *)
(***************************************************************************)

\* C10: in every reachable state the client's URL ends with "/", is the
\* constructor's url if that ended with "/" and url + "/" otherwise
\* (building a client from it again changes nothing), and Key and Database
\* are the constructor's arguments; no call changes the client, and a call
\* identical to the one before it builds the identical request.
ClientIsFixed ==
  /\ [](/\ EndsWithSlash(m.URL)
        /\ m.URL = IF EndsWithSlash(ctor.url) THEN ctor.url ELSE ctor.url \o <<"/">>
        /\ Len(m.URL) <= Len(ctor.url) + 1
        /\ NewMenousDB(m.URL, m.Key, m.Database) = m
        /\ m.Key = ctor.key
        /\ m.Database = ctor.database)
  /\ [][/\ m' = m
        /\ call' = call => (sent' = sent /\ req' = req)]_vars

\* The client built from "h/" has made two calls, the last one a request
\* that failed.
C10_Witness ==
  /\ ctor.url = <<"h", "/">>
  /\ m.URL = <<"h", "/">>
  /\ nCalls = 2
  /\ sent
  /\ ret.err # NoErr

====
